---- MODULE Spec2Model ----
(***************************************************************************)
(* Session coordinator of the dashboard: AuthProvider and its helpers      *)
(* (src/src/pages/Register.tsx, lines 287-441), together with the identity *)
(* provider and the document store it talks to.                            *)
(*                                                                         *)
(* Every `await` of the source is a suspension point: the code before it   *)
(* and the code after it are separate actions, and anything else may run   *)
(* in between.                                                             *)
(***************************************************************************)
EXTENDS Integers, Sequences, FiniteSets, TLC

\* ---------------------------------------------------------------- bounds
\* Operations started from outside after the start-up event: provider
\* events, login() calls, logout() calls and out-of-band writes.
MaxOps == 2

\* ---------------------------------------------------------------- values
\* JavaScript null / Option None.
None == [null |-> TRUE]

\* The provider's principals (FirebaseUser): uid, email, displayName
\* (displayName "" stands for a principal without a display name).
Principals ==
  { [uid |-> "u123", email |-> "bad@x.com", displayName |-> ""] }

Passwords == {"right", "wrong"}

\* ------------------------------------------------------- pure functions
\* !!v of JavaScript, for the values a user state can hold.
Truthy(v) == v # None

\* { ...a, ...b }: the fields of b override those of a.
Spread(a, b) ==
  [f \in (DOMAIN a) \cup (DOMAIN b) |-> IF f \in DOMAIN b THEN b[f] ELSE a[f]]

\* firebaseUser.displayName || 'Usuário'
NameOrDefault(n) == IF n = "" THEN "Usuário" ELSE n

getErrorMessage(code) ==
  CASE code = "auth/invalid-email" -> "Email inválido"
    [] code = "auth/user-disabled" -> "Usuário desativado"
    [] code = "auth/user-not-found" -> "Usuário não encontrado"
    [] code = "auth/wrong-password" -> "Senha incorreta"
    [] code = "auth/too-many-requests" -> "Muitas tentativas. Tente novamente mais tarde"
    [] code = "auth/network-request-failed" -> "Erro de conexão. Verifique sua internet"
    [] code = "auth/internal-error" -> "Erro interno. Tente novamente"
    [] OTHER -> "Erro ao fazer login. Tente novamente"

\* doc(db, 'users', firebaseUser.uid): the key of a principal's document.
userRef(firebaseUser) == firebaseUser.uid

\* createUserDocument with another default role.
basicUser_admin(firebaseUser, t) ==
  [ id |-> firebaseUser.uid,
    email |-> firebaseUser.email,
    name |-> NameOrDefault(firebaseUser.displayName),
    role |-> "admin",
    phone |-> "",
    location |-> "",
    createdAt |-> t,
    status |-> "ativo",
    password |-> "" ]

\* The record createUserDocument builds before it writes it.
basicUser(firebaseUser, t) ==
  [ id |-> firebaseUser.uid,
    email |-> firebaseUser.email,
    name |-> NameOrDefault(firebaseUser.displayName),
    role |-> "usuario",
    phone |-> "",
    location |-> "",
    createdAt |-> t,
    status |-> "ativo",
    password |-> "" ]

\* The user published when the document exists.
mergedUser(firebaseUser, data) ==
  Spread([id |-> firebaseUser.uid, email |-> firebaseUser.email], data)

\* A context value that reports nobody while loading.
ContextValue_whenLoaded(u, l) ==
  [ user |-> u, isAuthenticated |-> Truthy(u) /\ ~ l, isLoading |-> l ]

\* The context value computed on every render.
ContextValue(u, l) ==
  [ user |-> u, isAuthenticated |-> Truthy(u), isLoading |-> l ]

\* ------------------------------------------------------ document store
\* The users collection: a set of documents, each with the key of its
\* path (doc(db, 'users', key)) and its data.
DocsAt(st, key) == { e \in st : e.key = key }

docExists(st, key) == DocsAt(st, key) # {}

docData(st, key) == (CHOOSE e \in DocsAt(st, key) : TRUE).data

\* A write that adds a document (addDoc) instead of upserting at the key.
setDocMerge_insert(st, key, data) == st \cup { [key |-> key, data |-> data] }

\* setDoc(ref, data, { merge: true }): upsert at the key of ref; the fields
\* of data replace the stored ones, the other stored fields are kept.
setDocMerge(st, key, data) ==
  IF docExists(st, key)
    THEN (st \ DocsAt(st, key)) \cup { [key |-> key, data |-> Spread(docData(st, key), data)] }
    ELSE st \cup { [key |-> key, data |-> data] }


\* updateDoc(ref, patch): the fields of patch replace the stored ones of an
\* existing document.
updateDoc(st, key, patch) ==
  (st \ DocsAt(st, key)) \cup { [key |-> key, data |-> Spread(docData(st, key), patch)] }

\* ------------------------------------------------------------- provider
UidOf(fu) == IF fu = None THEN "null" ELSE fu.uid

\* What signInWithEmailAndPassword can answer for a pair of credentials:
\* a principal, or the code of an AuthError.
SignInOutcomes(email, password) ==
  LET known == { p \in Principals : p.email = email }
      transient == { [ok |-> FALSE, code |-> c] :
                       c \in {"auth/network-request-failed"} }
  IN  IF known = {} THEN { [ok |-> FALSE, code |-> "auth/user-not-found"] }
      ELSE IF password # "right" THEN { [ok |-> FALSE, code |-> "auth/wrong-password"] }
      ELSE { [ok |-> TRUE, principal |-> p] : p \in known } \cup transient

\* The code a failed document-store call carries (a FirestoreError).
StoreErrorCode == "unavailable"

\* Out-of-band edits of a stored profile.
AdminPatches == { [role |-> "admin", email |-> "novo@x.com"] }

\* ------------------------------------------------------------ the state
VARIABLES
  user,             \* useState<User | null>
  isLoading,        \* useState(true)
  currentUser,      \* the provider's session: a principal or None
  lastNotifiedUid,  \* uid last handed to the onAuthStateChanged listener
  store,            \* the users collection
  handlers,         \* invocations of the onAuthStateChanged callback
  logins,           \* calls of login()
  logouts,          \* calls of logout()
  now,              \* the clock: every new Date() reads a later time
  started,          \* operations started from outside so far
  subscribed,       \* the listener is registered (unsubscribe not called yet)
  route             \* the location the router shows

vars == << user, isLoading, currentUser, lastNotifiedUid, store, handlers,
           logins, logouts, now, started, subscribed, route >>

\* The context value of the current render.
value == ContextValue(user, isLoading)

\* Documents left by earlier sessions of the application.
InitialStores ==
  { { [key |-> userRef(p), data |-> basicUser(p, 0)] : p \in S } : S \in SUBSET Principals }

Init ==
  /\ user = None
  /\ isLoading = TRUE
  /\ currentUser = None
  /\ lastNotifiedUid = "unset"
  /\ store \in InitialStores
  /\ handlers = << >>
  /\ logins = << >>
  /\ logouts = << >>
  /\ now = 1
  /\ started = 0
  /\ subscribed = TRUE
  /\ route = "/"

\* ------------------------------------------------- the listener callback
\* A callback that flips the flag instead of clearing it.
loadingAfterHandler_toggle(outcome, l) == ~ l

\* A callback that clears the flag at the end of the try block only.
loadingAfterHandler_tryOnly(outcome, l) == IF outcome = "error" THEN l ELSE FALSE

\* setIsLoading(false) of the finally block; outcome is the branch the
\* callback took: "user", "null" or "error".
loadingAfterHandler(outcome, l) == FALSE

\* setUser(null) of the catch block.
userAfterHandlerError(u) == None

\* An invocation that has run to its end: its locals are gone.
handlerExit(pc) == [ pc |-> pc, firebaseUser |-> None, newUser |-> None ]

\* The callback up to its first suspension point: with no principal it
\* runs to its end, with a principal it stops at `await getDoc`.
handlerEntry(fu) ==
  IF fu = None
    THEN handlerExit("done")
    ELSE [ pc |-> "getDoc", firebaseUser |-> fu, newUser |-> None ]

\* The provider has a session fu to announce when its uid differs from
\* the one it announced last.
Notified(fu) == lastNotifiedUid # UidOf(fu)

\* The listener is called with it as long as it is registered.
Delivered(fu) == subscribed /\ Notified(fu)

NotifyListener(fu) ==
  /\ lastNotifiedUid' = UidOf(fu)
  /\ handlers' = IF Delivered(fu) THEN Append(handlers, handlerEntry(fu)) ELSE handlers
  /\ user' = IF Delivered(fu) /\ fu = None THEN None ELSE user
  /\ isLoading' = IF Delivered(fu) /\ fu = None
                    THEN loadingAfterHandler("null", isLoading) ELSE isLoading

\* The provider changes the session on its own: the session restored at
\* start-up, a sign-in or sign-out in another tab, an expired session.
ProviderEvent(fu) ==
  /\ lastNotifiedUid = "unset" \/ started < MaxOps
  /\ Notified(fu)
  /\ started' = IF lastNotifiedUid = "unset" THEN started ELSE started + 1
  /\ currentUser' = fu
  /\ NotifyListener(fu)
  /\ UNCHANGED << store, logins, logouts, now, subscribed, route >>

\* `await getDoc(...)` of the callback returns or throws.
HandlerGetDocReturn(i, fails) ==
  LET h == handlers[i] IN
  /\ h.pc = "getDoc"
  /\ IF fails
       THEN /\ handlers' = [handlers EXCEPT ![i] = handlerExit("error")]
            /\ user' = userAfterHandlerError(user)
            /\ isLoading' = loadingAfterHandler("error", isLoading)
            /\ now' = now
       ELSE IF docExists(store, userRef(h.firebaseUser))
       THEN /\ handlers' = [handlers EXCEPT ![i] = handlerExit("done")]
            /\ user' = mergedUser(h.firebaseUser, docData(store, userRef(h.firebaseUser)))
            /\ isLoading' = loadingAfterHandler("user", isLoading)
            /\ now' = now
       ELSE /\ now' = now + 1
            /\ handlers' = [handlers EXCEPT ![i].pc = "setDoc",
                                            ![i].newUser = basicUser(h.firebaseUser, now')]
            /\ UNCHANGED << user, isLoading >>
  /\ UNCHANGED << currentUser, lastNotifiedUid, store, logins, logouts, started, subscribed, route >>

\* `await setDoc(...)` of createUserDocument, called by the callback,
\* returns or throws.
HandlerSetDocReturn(i, fails) ==
  LET h == handlers[i] IN
  /\ h.pc = "setDoc"
  /\ IF fails
       THEN /\ handlers' = [handlers EXCEPT ![i] = handlerExit("error")]
            /\ user' = userAfterHandlerError(user)
            /\ isLoading' = loadingAfterHandler("error", isLoading)
            /\ store' = store
       ELSE /\ handlers' = [handlers EXCEPT ![i] = handlerExit("done")]
            /\ store' = setDocMerge(store, userRef(h.firebaseUser), h.newUser)
            /\ user' = h.newUser
            /\ isLoading' = loadingAfterHandler("user", isLoading)
  /\ UNCHANGED << currentUser, lastNotifiedUid, logins, logouts, now, started, subscribed, route >>


\* ---------------------------------------------------------------- login
\* A catch block that signs the user out of the application.
userAfterLoginError_clear(u) == None

\* What the catch block of login leaves in the user state.
userAfterLoginError(u) == u

\* What login throws for an error that carries a code.
loginError(code) == getErrorMessage(code)

\* A call that has returned or thrown: its locals are gone, its result
\* stays with the caller.
loginExit(pc, r) ==
  [ pc |-> pc, email |-> "", password |-> "", firebaseUser |-> None,
    newUser |-> None, result |-> r ]

\* login(email, password) up to `await signInWithEmailAndPassword`.
LoginCall(email, password) ==
  /\ started < MaxOps
  /\ started' = started + 1
  /\ logins' = Append(logins, [ pc |-> "signIn", email |-> email, password |-> password,
                                firebaseUser |-> None, newUser |-> None, result |-> "" ])
  /\ UNCHANGED << user, isLoading, currentUser, lastNotifiedUid, store, handlers,
                  logouts, now, subscribed, route >>

\* signInWithEmailAndPassword returns or throws.  On success the provider
\* has a new session, tells the listener, and login goes on to
\* `await getDoc`.
LoginSignInReturn(i, outcome) ==
  LET c == logins[i] IN
  /\ c.pc = "signIn"
  /\ lastNotifiedUid # "unset"
  /\ IF outcome.ok
       THEN /\ currentUser' = outcome.principal
            /\ NotifyListener(outcome.principal)
            /\ logins' = [logins EXCEPT ![i].pc = "getDoc",
                                        ![i].firebaseUser = outcome.principal]
       ELSE /\ logins' = [logins EXCEPT ![i] = loginExit("failed", loginError(outcome.code))]
            /\ user' = userAfterLoginError(user)
            /\ UNCHANGED << isLoading, currentUser, lastNotifiedUid, handlers >>
  /\ UNCHANGED << store, logouts, now, started, subscribed, route >>

\* `await getDoc(...)` of login returns or throws.
LoginGetDocReturn(i, fails) ==
  LET c == logins[i] IN
  /\ c.pc = "getDoc"
  /\ IF fails
       THEN /\ logins' = [logins EXCEPT ![i] = loginExit("failed", loginError(StoreErrorCode))]
            /\ user' = userAfterLoginError(user)
            /\ now' = now
       ELSE IF ~ docExists(store, userRef(c.firebaseUser))
       THEN /\ now' = now + 1
            /\ logins' = [logins EXCEPT ![i].pc = "setDoc",
                                        ![i].newUser = basicUser(c.firebaseUser, now')]
            /\ user' = user
       ELSE /\ logins' = [logins EXCEPT ![i] = loginExit("done", "ok")]
            /\ user' = mergedUser(c.firebaseUser, docData(store, userRef(c.firebaseUser)))
            /\ now' = now
  /\ UNCHANGED << isLoading, currentUser, lastNotifiedUid, store, handlers,
                  logouts, started, subscribed, route >>

\* `await setDoc(...)` of createUserDocument, called by login, returns or
\* throws.
LoginSetDocReturn(i, fails) ==
  LET c == logins[i] IN
  /\ c.pc = "setDoc"
  /\ IF fails
       THEN /\ logins' = [logins EXCEPT ![i] = loginExit("failed", loginError(StoreErrorCode))]
            /\ user' = userAfterLoginError(user)
            /\ store' = store
       ELSE /\ logins' = [logins EXCEPT ![i] = loginExit("done", "ok")]
            /\ store' = setDocMerge(store, userRef(c.firebaseUser), c.newUser)
            /\ user' = c.newUser
  /\ UNCHANGED << isLoading, currentUser, lastNotifiedUid, handlers,
                  logouts, now, started, subscribed, route >>

\* --------------------------------------------------------------- logout
LogoutErrorMessage == "Erro ao fazer logout. Tente novamente"

\* A catch block that clears the user although the session goes on.
userAfterLogoutError_clear(u) == None

\* What the catch block of logout leaves in the user state.
userAfterLogoutError(u) == u

\* setUser(null) after `await firebaseSignOut(auth)`.
userAfterLogout(u) == None

\* logout() up to `await firebaseSignOut(auth)`.
LogoutCall ==
  /\ started < MaxOps
  /\ started' = started + 1
  /\ logouts' = Append(logouts, [ pc |-> "signOut", result |-> "" ])
  /\ UNCHANGED << user, isLoading, currentUser, lastNotifiedUid, store, handlers,
                  logins, now, subscribed, route >>

\* firebaseSignOut returns or throws.  On success the provider has no
\* session and tells the listener.
LogoutSignOutReturn(i, fails) ==
  /\ logouts[i].pc = "signOut"
  /\ lastNotifiedUid # "unset"
  /\ IF fails
       THEN /\ logouts' = [logouts EXCEPT ![i].pc = "failed",
                                          ![i].result = LogoutErrorMessage]
            /\ user' = userAfterLogoutError(user)
            /\ UNCHANGED << isLoading, currentUser, lastNotifiedUid, handlers >>
       ELSE /\ currentUser' = None
            /\ NotifyListener(None)
            /\ logouts' = [logouts EXCEPT ![i].pc = "signedOut"]
  /\ UNCHANGED << store, logins, now, started, subscribed, route >>

\* logout resumes after the await: setUser(null).
LogoutResume(i) ==
  /\ logouts[i].pc = "signedOut"
  /\ logouts' = [logouts EXCEPT ![i].pc = "done", ![i].result = "ok"]
  /\ user' = userAfterLogout(user)
  /\ UNCHANGED << isLoading, currentUser, lastNotifiedUid, store, handlers,
                  logins, now, started, subscribed, route >>

\* ---------------------------------------------------- out-of-band writes
\* An administrator edits a stored profile outside the coordinator.
AdminUpdate(key, patch) ==
  /\ started < MaxOps
  /\ docExists(store, key)
  /\ Spread(docData(store, key), patch) # docData(store, key)
  /\ started' = started + 1
  /\ store' = updateDoc(store, key, patch)
  /\ UNCHANGED << user, isLoading, currentUser, lastNotifiedUid, handlers,
                  logins, logouts, now, subscribed, route >>

\* ------------------------------------------------------------- teardown
\* The cleanup of the effect: unsubscribe().  Invocations of the callback,
\* logins and logouts that are in flight go on.
Unsubscribe ==
  /\ subscribed
  /\ subscribed' = FALSE
  /\ UNCHANGED << user, isLoading, currentUser, lastNotifiedUid, store, handlers,
                  logins, logouts, now, started, route >>

\* -------------------------------------------------------------- routing
Roles == {"admin", "organizador", "usuario"}

\* <ProtectedRoute>: any authenticated user.
AnyRole == [restricted |-> FALSE, allowedRoles |-> {}]

\* <ProtectedRoute allowedRoles={[...]}>.
Only(roles) == [restricted |-> TRUE, allowedRoles |-> roles]

\* A route table that leaves the users view to every authenticated user.
RouteGuards_usersOpen(r) ==
  CASE r = "/app/dashboard" -> << AnyRole >>
    [] r = "/app/events/create" -> << AnyRole, Only({"admin", "organizador"}) >>
    [] r = "/app/users" -> << AnyRole >>
    [] OTHER -> << >>

\* The ProtectedRoute elements around a route of App, outermost first.
RouteGuards(r) ==
  CASE r = "/app/dashboard" -> << AnyRole >>
    [] r = "/app/events/create" -> << AnyRole, Only({"admin", "organizador"}) >>
    [] r = "/app/users" -> << AnyRole, Only({"admin"}) >>
    [] OTHER -> << >>

ProtectedRoutes == { "/app/dashboard", "/app/events/create", "/app/users" }

Routes == ProtectedRoutes \cup { "/" }

\* The decision of one ProtectedRoute for a context value.
guard(v, g) ==
  IF v.isLoading THEN "suspend"
  ELSE IF ~ v.isAuthenticated THEN "redirect-login"
  ELSE IF g.restricted /\ v.user.role \notin g.allowedRoles THEN "redirect-unauthorized"
  ELSE "render"

\* What the router shows for a route: the decision of the outermost guard
\* that does not render its children, "render" when every guard does.
decision(v, r) ==
  LET gs == RouteGuards(r)
      blocked == { i \in DOMAIN gs : guard(v, gs[i]) # "render" }
  IN  IF blocked = {} THEN "render"
      ELSE guard(v, gs[CHOOSE i \in blocked : \A j \in blocked : i <= j])

\* The user opens a location.
Navigate(r) ==
  /\ started < MaxOps
  /\ r # route
  /\ started' = started + 1
  /\ route' = r
  /\ UNCHANGED << user, isLoading, currentUser, lastNotifiedUid, store, handlers,
                  logins, logouts, now, subscribed >>

\* -------------------------------------------------------- specification
Emails == { p.email : p \in Principals }

HandlerStep ==
  \E i \in DOMAIN handlers, fails \in BOOLEAN :
     \/ HandlerGetDocReturn(i, fails)
     \/ HandlerSetDocReturn(i, fails)

InitialEvent ==
  /\ lastNotifiedUid = "unset"
  /\ \E fu \in Principals \cup {None} : ProviderEvent(fu)

Next ==
  \/ \E fu \in Principals \cup {None} : ProviderEvent(fu)
  \/ \E i \in DOMAIN handlers, fails \in BOOLEAN : HandlerGetDocReturn(i, fails)
  \/ \E i \in DOMAIN handlers, fails \in BOOLEAN : HandlerSetDocReturn(i, fails)
  \/ \E email \in Emails, password \in Passwords : LoginCall(email, password)
  \/ \E i \in DOMAIN logins :
        \E outcome \in SignInOutcomes(logins[i].email, logins[i].password) :
           LoginSignInReturn(i, outcome)
  \/ \E i \in DOMAIN logins, fails \in BOOLEAN : LoginGetDocReturn(i, fails)
  \/ \E i \in DOMAIN logins, fails \in BOOLEAN : LoginSetDocReturn(i, fails)
  \/ LogoutCall
  \/ \E i \in DOMAIN logouts, fails \in BOOLEAN : LogoutSignOutReturn(i, fails)
  \/ \E i \in DOMAIN logouts : LogoutResume(i)
  \/ \E key \in { p.uid : p \in Principals }, patch \in AdminPatches : AdminUpdate(key, patch)
  \/ Unsubscribe
  \/ \E r \in Routes : Navigate(r)

Spec == Init /\ [][Next]_vars

\* The provider announces its first session, and every document-store call
\* of the listener callback returns or fails.
FairSpec == Spec /\ WF_vars(InitialEvent) /\ WF_vars(HandlerStep)


\* ============================================================== claims
HandlerFinished(h) == h.pc \in {"done", "error"}
LoginFinished(c) == c.pc \in {"done", "failed"}
LogoutFinished(o) == o.pc \in {"done", "failed"}

\* Nothing is in flight.
Quiescent ==
  /\ \A i \in DOMAIN handlers : HandlerFinished(handlers[i])
  /\ \A i \in DOMAIN logins : LoginFinished(logins[i])
  /\ \A i \in DOMAIN logouts : LogoutFinished(logouts[i])

\* The invocation i of the listener callback runs to its end in this step.
HandlerCompletes(i) ==
  /\ i \in DOMAIN handlers'
  /\ HandlerFinished(handlers'[i])
  /\ (i \in DOMAIN handlers => ~ HandlerFinished(handlers[i]))

\* C1: once every resolution has completed (and none of them failed on the
\* document store), isAuthenticated is true exactly when the event the
\* listener received last was a sign-in.
C1_AuthFollowsLastEvent ==
  ( /\ lastNotifiedUid # "unset"
    /\ subscribed
    /\ Quiescent
    /\ \A i \in DOMAIN handlers : handlers[i].pc # "error" )
  => ( value.isAuthenticated <=> lastNotifiedUid # "null" )

\* C2: a resolution that completes after a newer event has been applied
\* does not change the published user: neither a listener invocation that
\* ends after a later invocation has ended, nor a login that ends when its
\* principal is no longer the one the listener was told last.
C2_StaleResolutionDiscarded ==
  [][ /\ \A i \in DOMAIN handlers :
           ( /\ HandlerCompletes(i)
             /\ \E j \in DOMAIN handlers : j > i /\ HandlerFinished(handlers[j]) )
           => user' = user
      /\ \A i \in DOMAIN logins :
           ( /\ logins[i].pc \in {"getDoc", "setDoc"}
             /\ logins'[i].pc = "done"
             /\ lastNotifiedUid # UidOf(logins[i].firebaseUser) )
           => user' = user ]_vars

\* C3: isLoading starts true, is true exactly as long as no invocation of
\* the listener callback has run to its end, and once false stays false.
C3_LoadingEndsOnce ==
  /\ isLoading = TRUE
  /\ [](isLoading <=> \A i \in DOMAIN handlers : ~ HandlerFinished(handlers[i]))
  /\ [][~ isLoading => ~ isLoading']_vars

C3_Witness ==
  /\ ~ isLoading
  /\ \E i \in DOMAIN logins : logins[i].pc = "done"
  /\ \E i \in DOMAIN logouts : logouts[i].pc = "done"
  /\ \E i \in DOMAIN handlers : handlers[i].pc = "error"

\* C4: a login the provider rejects throws the localized message of the
\* error (wrong password: 'Senha incorreta') and leaves user,
\* isAuthenticated and isLoading as they were; calling login changes
\* nothing either.
C4_RejectedLoginKeepsState ==
  [][ /\ \A i \in DOMAIN logins :
           ( logins[i].pc = "signIn" /\ logins'[i].pc = "failed" )
           => /\ value' = value
              /\ logins'[i].result \in
                   { "Senha incorreta", "Erro de conexão. Verifique sua internet" }
              /\ ( logins[i].password = "wrong"
                     => logins'[i].result = "Senha incorreta" )
      /\ ( Len(logins') > Len(logins) => value' = value ) ]_vars

C4_Witness ==
  /\ value.isAuthenticated
  /\ \E i \in DOMAIN logins :
        logins[i].pc = "failed" /\ logins[i].result = "Senha incorreta"

\* C5: a logout whose sign-out the provider performs ends the provider's
\* session and returns with user = null and isAuthenticated false; a logout
\* whose sign-out fails leaves the session state as it was and throws the
\* generic logout error.
C5_LogoutOutcome ==
  [][ \A i \in DOMAIN logouts :
        /\ ( logouts[i].pc = "signOut" /\ logouts'[i].pc = "failed" )
           => /\ value' = value
              /\ currentUser' = currentUser
              /\ logouts'[i].result = "Erro ao fazer logout. Tente novamente"
        /\ ( logouts[i].pc = "signOut" /\ logouts'[i].pc = "signedOut" )
           => currentUser' = None
        /\ ( logouts[i].pc = "signedOut" /\ logouts'[i].pc = "done" )
           => /\ user' = None
              /\ ~ value'.isAuthenticated
              /\ logouts'[i].result = "ok" ]_vars

C5_Witness ==
  /\ value.isAuthenticated
  /\ \E i \in DOMAIN logouts :
        logouts[i].pc = "failed" /\ logouts[i].result = LogoutErrorMessage

\* C6: an invocation of the listener callback that fails on the document
\* store ends with user = null and isLoading false, and isLoading becomes
\* false eventually, unless the listener is unregistered first.
C6_HandlerFailureEndsLoading ==
  /\ [][ \A i \in DOMAIN handlers :
           ( HandlerCompletes(i) /\ handlers'[i].pc = "error" )
           => ( user' = None /\ ~ isLoading' ) ]_vars
  /\ <>(~ isLoading \/ ~ subscribed)

C6_Witness ==
  /\ ~ isLoading
  /\ subscribed
  /\ user = None
  /\ Len(handlers) = 1
  /\ handlers[1].pc = "error"

\* C7: in every context value, isAuthenticated is true exactly when user is
\* not null.
C7_AuthenticatedIffUser ==
  value.isAuthenticated <=> value.user # None

C7_Witness ==
  /\ value.isAuthenticated
  /\ value.isLoading
  /\ \E i \in DOMAIN logouts : logouts[i].pc = "failed"


\* The stored documents that belong to a principal id, by key or by id.
ProfilesOf(st, uid) == { e \in st : e.key = uid \/ e.data.id = uid }

\* login or the listener callback returns from a successful
\* createUserDocument for the principal fu in this step.
CreationCompletes(fu) ==
  \/ \E i \in DOMAIN handlers :
        /\ handlers[i].pc = "setDoc" /\ handlers'[i].pc = "done"
        /\ handlers[i].firebaseUser = fu
  \/ \E i \in DOMAIN logins :
        /\ logins[i].pc = "setDoc" /\ logins'[i].pc = "done"
        /\ logins[i].firebaseUser = fu

\* C8: the store never holds two documents for one principal id, a
\* principal's document is stored under the principal id, and after every
\* creation, racing ones included, there is exactly one.
C8_OneProfilePerPrincipal ==
  /\ [](\A p \in Principals :
          /\ Cardinality(ProfilesOf(store, p.uid)) <= 1
          /\ \A e \in ProfilesOf(store, p.uid) : e.key = p.uid /\ e.data.id = p.uid)
  /\ [][ \A p \in Principals :
           CreationCompletes(p) => Cardinality(ProfilesOf(store', p.uid)) = 1 ]_vars

\* Two runs both found the document absent, both wrote it, and nothing
\* failed.
C8_Witness ==
  /\ now = 3
  /\ Quiescent
  /\ \A i \in DOMAIN handlers : handlers[i].pc = "done"
  /\ \A i \in DOMAIN logins : logins[i].pc = "done"
  /\ \A p \in Principals : Cardinality(ProfilesOf(store, p.uid)) = 1

\* C9: a creation stores, under the principal id, a profile with that id,
\* role usuario, status ativo, empty phone and location, and publishes it
\* with isAuthenticated true; no step of logout changes the store, and a
\* successful logout returns with user = null and isAuthenticated false.
C9_FirstSignInThenLogout ==
  [][ /\ \A p \in Principals :
           CreationCompletes(p)
           => /\ docExists(store', p.uid)
              /\ docData(store', p.uid).id = p.uid
              /\ docData(store', p.uid).role = "usuario"
              /\ docData(store', p.uid).status = "ativo"
              /\ docData(store', p.uid).phone = ""
              /\ docData(store', p.uid).location = ""
              /\ value'.user = docData(store', p.uid)
              /\ value'.isAuthenticated
      /\ \A i \in DOMAIN logouts :
           /\ logouts'[i] # logouts[i] => store' = store
           /\ ( logouts[i].pc # "done" /\ logouts'[i].pc = "done" )
              => ( value'.user = None /\ ~ value'.isAuthenticated ) ]_vars

C9_Witness ==
  /\ user = None
  /\ \E i \in DOMAIN logouts : logouts[i].pc = "done"
  /\ \E i \in DOMAIN logins : logins[i].pc = "done"
  /\ \E e \in store : e.data.createdAt > 0 /\ e.data.role = "usuario"

\* C10: when the document exists, the published id and email are the
\* provider's, and role, phone, location and status are the stored ones.
C10_ProviderWinsIdentity ==
  [][ /\ \A i \in DOMAIN handlers :
           ( handlers[i].pc = "getDoc" /\ handlers'[i].pc = "done" )
           => LET fu == handlers[i].firebaseUser
                  data == docData(store, userRef(fu))
              IN  /\ user'.id = fu.uid
                  /\ user'.email = fu.email
                  /\ user'.role = data.role
                  /\ user'.phone = data.phone
                  /\ user'.location = data.location
                  /\ user'.status = data.status
      /\ \A i \in DOMAIN logins :
           ( logins[i].pc = "getDoc" /\ logins'[i].pc = "done" )
           => LET fu == logins[i].firebaseUser
                  data == docData(store, userRef(fu))
              IN  /\ user'.id = fu.uid
                  /\ user'.email = fu.email
                  /\ user'.role = data.role
                  /\ user'.phone = data.phone
                  /\ user'.location = data.location
                  /\ user'.status = data.status ]_vars


\* C12: the createdAt of a stored profile never changes once the document
\* exists, whatever the coordinator does, racing creations included.
C12_CreatedAtImmutable ==
  [][ \A p \in Principals :
        ( docExists(store, userRef(p)) /\ docExists(store', userRef(p)) )
        => docData(store', userRef(p)).createdAt = docData(store, userRef(p)).createdAt ]_vars

\* A step of the coordinator itself: of the listener callback, of login or
\* of logout.
CoordinatorStep ==
  handlers' # handlers \/ logins' # logins \/ logouts' # logouts

\* C14: no step of the coordinator changes the role or the status of a
\* document that exists already.
C14_ExistingRoleKept ==
  [][ \A p \in Principals :
        ( CoordinatorStep /\ docExists(store, userRef(p)) )
        => /\ docExists(store', userRef(p))
           /\ docData(store', userRef(p)).role = docData(store, userRef(p)).role
           /\ docData(store', userRef(p)).status = docData(store, userRef(p)).status ]_vars


\* C13: once the listener is unregistered, nothing writes user or
\* isLoading any more, not even an invocation that was in flight.
C13_NoDispatchAfterUnsubscribe ==
  [][ ~ subscribed => ( user' = user /\ isLoading' = isLoading ) ]_vars


====
